---- MODULE Spec2Model ----
(***************************************************************************)
(* The request lifecycle of the OpenAI-compatible gateway of               *)
(* src/vllm/entrypoints/runpod/api_server.py: validation, submission to    *)
(* the engine, true streaming, the non-streaming drain, the fake stream    *)
(* and the abort on client disconnect.                                     *)
(*                                                                         *)
(* Texts are sequences of one-character strings, so that the slice         *)
(* output.text[len(previous_texts[i]):] is computed and not assumed.       *)
(***************************************************************************)
EXTENDS Integers, Sequences, FiniteSets, TLC

VARIABLES
    endpoint,             \* "chat" (/v1/chat/completions) or "completions" (/v1/completions)
    request,              \* the parsed request body, with the tokenizer's count of its prompt
    hf_config,            \* self.engine_model_config.hf_config
    pc,                   \* position of the handler / of the response generator
    response,             \* what the handler returned (NoResponse while it runs)
    submitted,            \* number of engine.generate calls
    aborts,               \* number of engine.abort calls
    seqs,                 \* engine: the candidate sequences of the request
    scheduler,            \* engine: engine.engine.scheduler, its queues and its timestamp
    engine_finished,      \* engine: the last snapshot yielded was the finished one
    pending,              \* res.outputs still to be handled by the `for output` loop
    previous_texts,       \* per-index accumulation state
    previous_num_tokens,  \* per-index accumulation state
    role_i,               \* loop variable of the role-announcement loop
    frames,               \* the SSE frames written so far, in order
    final_res,            \* final_res of the non-streaming drain
    disconnected,         \* raw_request.is_disconnected()
    consumed,             \* history: snapshots the handler has taken from result_generator
    disc,                 \* history: when the client disconnected
    queue_state,          \* what the last call of vllm_queue_state returned
    sessions              \* the requests in flight together, each with the state of its handler

vars == <<endpoint, request, hf_config, pc, response, submitted, aborts, seqs, scheduler,
          engine_finished, pending, previous_texts, previous_num_tokens, role_i,
          frames, final_res, disconnected, consumed, disc, queue_state, sessions>>

None == "None"

(* Optional[int]: <<>> is None, <<v>> is the integer v *)
NoInt == <<>>
Some(v) == <<v>>
OptInt(S) == {NoInt} \cup {Some(v) : v \in S}

(* Bounds of the model *)
MaxN == 2
MaxBestOf == 2
MaxTokens == 2
MaxCancels == 2

(* Program constants *)
DefaultContextLen == 2048
BAD_REQUEST == 400
NOT_FOUND == 404

-----------------------------------------------------------------------------
(* Engine-side data: tokens and their detokenised text *)

Tokens == {1, 2}

TokenText(t) == IF t = 1 THEN <<"a">> ELSE <<"b", "c">>

RECURSIVE Detok(_)
Detok(ids) == IF ids = <<>> THEN <<>> ELSE Detok(SubSeq(ids, 1, Len(ids) - 1)) \o TokenText(ids[Len(ids)])

(* tokenizer.convert_ids_to_tokens: the string of a token in the vocabulary.  The
   string of token 1 is the text it adds; that of token 2 carries a leading marker
   that the text does not have, so it is one character longer *)
TokenStr(t) == IF t = 1 THEN <<"a">> ELSE <<"_", "b", "c">>

(* The log-probability the engine reports for token t at position k, as an integer
   that differs for every pair *)
LogProb(t, k) == 0 - (2 * k + t)

(* CompletionOutput.logprobs: for every generated token a dict from token id to
   log-probability *)
IdLogprobs(ids) == [k \in 1..Len(ids) |-> [t \in Tokens |-> LogProb(t, k)]]

-----------------------------------------------------------------------------
(* Requests *)

MessageInputs ==
    { [is_str |-> TRUE,  roles |-> <<>>],
      [is_str |-> FALSE, roles |-> <<"system", "user", "assistant", "user">>],
      [is_str |-> FALSE, roles |-> <<"user", "narrator">>] }

ChatRequests ==
    [ model : {"served", "other"}, logit_bias : {None, "bias"},
      messages : MessageInputs, prompt_len : {NoInt},
      echo : {FALSE}, suffix : {None}, logprobs : {NoInt},
      token_num : {1800, 1900}, max_tokens : {200}, bad_sampling : BOOLEAN,
      n : 1..MaxN, best_of : OptInt(1..MaxBestOf),
      use_beam_search : BOOLEAN, stream : BOOLEAN ]

CompletionRequests ==
    [ model : {"served", "other"}, logit_bias : {None, "bias"},
      messages : {[is_str |-> TRUE, roles |-> <<>>]}, prompt_len : OptInt({0, 1, 2}),
      echo : BOOLEAN, suffix : {None, "sfx"}, logprobs : OptInt({1}),
      token_num : {1800, 1900}, max_tokens : {200}, bad_sampling : BOOLEAN,
      n : 1..MaxN, best_of : OptInt(1..MaxBestOf),
      use_beam_search : BOOLEAN, stream : BOOLEAN ]

(* hf_config is the set of its attributes with their values: hasattr is membership
   of the domain *)
HfAttrs == {"max_sequence_length", "seq_length", "max_position_embeddings"}

ContextValues == {1024, 2048, 4096}

HfConfigs == UNION {[A -> ContextValues] : A \in SUBSET HfAttrs}

hasattr(cfg, a) == a \in DOMAIN cfg

-----------------------------------------------------------------------------
(* Responses *)

Msg(text) == [text |-> text, limit |-> 0, total |-> 0, prompt |-> 0, completion |-> 0]

NoUsage == [prompt_tokens |-> 0, completion_tokens |-> 0, total_tokens |-> 0]

NoResponse == [status |-> 0, type |-> "none", message |-> Msg(""), choices |-> <<>>, usage |-> NoUsage]

create_error_response(status_code, message) ==
    [status |-> status_code, type |-> "invalid_request_error", message |-> message,
     choices |-> <<>>, usage |-> NoUsage]

UncaughtException(text) ==
    [status |-> 500, type |-> "internal_server_error", message |-> Msg(text),
     choices |-> <<>>, usage |-> NoUsage]

StreamingResponse ==
    [status |-> 200, type |-> "text/event-stream", message |-> Msg(""), choices |-> <<>>, usage |-> NoUsage]

-----------------------------------------------------------------------------
(* Validation *)

check_model(req) ==
    IF req.model = "served" THEN NoResponse
    ELSE create_error_response(NOT_FOUND, Msg("The model does not exist."))

UnknownRole(req) ==
    /\ ~req.messages.is_str
    /\ \E k \in 1..Len(req.messages.roles) :
          req.messages.roles[k] \notin {"system", "user", "assistant"}

(* A lookup that prefers max_position_embeddings to the two other attributes *)
context_len_positionFirst(cfg) ==
    IF hasattr(cfg, "max_position_embeddings") THEN cfg["max_position_embeddings"]
    ELSE IF hasattr(cfg, "max_sequence_length") THEN cfg["max_sequence_length"]
    ELSE IF hasattr(cfg, "seq_length") THEN cfg["seq_length"]
    ELSE DefaultContextLen

context_len(cfg) ==
    IF hasattr(cfg, "max_sequence_length") THEN cfg["max_sequence_length"]
    ELSE IF hasattr(cfg, "seq_length") THEN cfg["seq_length"]
    ELSE IF hasattr(cfg, "max_position_embeddings") THEN cfg["max_position_embeddings"]
    ELSE IF hasattr(cfg, "seq_length") THEN cfg["seq_length"]
    ELSE DefaultContextLen

(* A length check that also rejects the exact fit *)
check_length_strict(req, cfg) ==
    IF req.token_num + req.max_tokens >= context_len(cfg)
    THEN create_error_response(BAD_REQUEST,
            [text |-> "This model's maximum context length is exceeded",
             limit |-> context_len(cfg), total |-> req.max_tokens + req.token_num,
             prompt |-> req.token_num, completion |-> req.max_tokens])
    ELSE NoResponse

(* The context-length check on the prompt's token count and max_tokens *)
check_length(req, cfg) ==
    IF req.token_num + req.max_tokens > context_len(cfg)
    THEN create_error_response(BAD_REQUEST,
            [text |-> "This model's maximum context length is exceeded",
             limit |-> context_len(cfg), total |-> req.max_tokens + req.token_num,
             prompt |-> req.token_num, completion |-> req.max_tokens])
    ELSE NoResponse

SamplingParamsOK(req) ==
    /\ ~req.bad_sampling
    /\ req.best_of # NoInt => req.best_of[1] >= req.n


(* The prompt of a chat request: the messages verbatim when they are a string,
   the rendered template otherwise; an unknown role raises ValueError *)
get_gen_prompt(req) ==
    IF req.messages.is_str THEN "verbatim"
    ELSE IF UnknownRole(req) THEN "ValueError"
    ELSE "rendered"

(* A chat validation that looks at logit_bias before the model name *)
ChatValidation_biasFirst(req, cfg) ==
    IF req.logit_bias # None
    THEN create_error_response(BAD_REQUEST, Msg("logit_bias is not currently supported"))
    ELSE IF check_model(req) # NoResponse THEN check_model(req)
    ELSE IF get_gen_prompt(req) = "ValueError" THEN UncaughtException("Unknown role")
    ELSE IF check_length(req, cfg) # NoResponse THEN check_length(req, cfg)
    ELSE IF ~SamplingParamsOK(req) THEN create_error_response(BAD_REQUEST, Msg("ValueError"))
    ELSE NoResponse

(* The checks of create_chat_completion in the order of the code: the first
   response returned, or NoResponse when the request goes on to engine.generate *)
ChatValidation(req, cfg) ==
    IF check_model(req) # NoResponse THEN check_model(req)
    ELSE IF req.logit_bias # None
         THEN create_error_response(BAD_REQUEST, Msg("logit_bias is not currently supported"))
    ELSE IF get_gen_prompt(req) = "ValueError" THEN UncaughtException("Unknown role")
    ELSE IF check_length(req, cfg) # NoResponse THEN check_length(req, cfg)
    ELSE IF ~SamplingParamsOK(req) THEN create_error_response(BAD_REQUEST, Msg("ValueError"))
    ELSE NoResponse

(* A completions validation that drops suffix without a word *)
CompletionValidation_dropsSuffix(req) ==
    IF check_model(req) # NoResponse THEN check_model(req)
    ELSE IF req.echo
         THEN create_error_response(BAD_REQUEST, Msg("echo is not currently supported"))
    ELSE IF req.logit_bias # None
         THEN create_error_response(BAD_REQUEST, Msg("logit_bias is not currently supported"))
    ELSE IF req.prompt_len # NoInt /\ req.prompt_len[1] = 0
         THEN create_error_response(BAD_REQUEST, Msg("please provide at least one prompt"))
    ELSE IF req.prompt_len # NoInt /\ req.prompt_len[1] > 1
         THEN create_error_response(BAD_REQUEST,
                  Msg("multiple prompts in a batch is not currently supported"))
    ELSE IF ~SamplingParamsOK(req) THEN create_error_response(BAD_REQUEST, Msg("ValueError"))
    ELSE NoResponse

(* The checks of create_completion in the order of the code *)
CompletionValidation(req) ==
    IF check_model(req) # NoResponse THEN check_model(req)
    ELSE IF req.echo
         THEN create_error_response(BAD_REQUEST, Msg("echo is not currently supported"))
    ELSE IF req.suffix # None
         THEN create_error_response(BAD_REQUEST, Msg("suffix is not currently supported"))
    ELSE IF req.logit_bias # None
         THEN create_error_response(BAD_REQUEST, Msg("logit_bias is not currently supported"))
    ELSE IF req.prompt_len # NoInt /\ req.prompt_len[1] = 0
         THEN create_error_response(BAD_REQUEST, Msg("please provide at least one prompt"))
    ELSE IF req.prompt_len # NoInt /\ req.prompt_len[1] > 1
         THEN create_error_response(BAD_REQUEST,
                  Msg("multiple prompts in a batch is not currently supported"))
    ELSE IF ~SamplingParamsOK(req) THEN create_error_response(BAD_REQUEST, Msg("ValueError"))
    ELSE NoResponse

(* A streaming decision that forgets best_of *)
CompletionStream_ignoreBestOf(req) ==
    /\ req.stream
    /\ ~req.use_beam_search

(* stream of create_completion: whether the completions response is truly streamed *)
CompletionStream(req) ==
    /\ req.stream
    /\ (req.best_of = NoInt \/ Some(req.n) = req.best_of)
    /\ ~req.use_beam_search

(* A chat streaming decision that is the one of create_completion *)
ChatStream_likeCompletions(req) == CompletionStream(req)

(* create_chat_completion streams on request.stream alone *)
ChatStream(req) == req.stream

-----------------------------------------------------------------------------
(* The engine: engine.generate, the snapshots of result_generator, engine.abort *)

NumSeqs(req) == IF req.best_of = NoInt THEN req.n ELSE req.best_of[1]

SeqIds(req) == 0..(NumSeqs(req) - 1)

NewSeqs(req) == [s \in SeqIds(req) |-> [token_ids |-> <<>>, finish_reason |-> None]]

(* The sequences of sq that have not finished *)
RunningIn(sq) == {s \in DOMAIN sq : sq[s].finish_reason = None}

Running == RunningIn(seqs)

(* The tokens one engine iteration samples for the running sequences.  The first
   iteration picks the token of sequence 0, which FirstTokens reads back in the
   later ones; neighbouring sequences and successive positions alternate between
   the two tokens, so that the texts of different indices differ and every text
   grows by one and by two characters in turn *)
FirstTokensIn(sq) ==
    IF sq[0].token_ids = <<>> THEN Tokens
    ELSE {t \in Tokens : (t % 2) + 1 = sq[0].token_ids[1]}

FirstTokens == FirstTokensIn(seqs)

TokenChoicesIn(sq) ==
    {[s \in RunningIn(sq) |-> ((t + s + Len(sq[s].token_ids)) % 2) + 1] : t \in FirstTokensIn(sq)}

TokenChoices == TokenChoicesIn(seqs)

(* One engine iteration on the sequences sq: every running sequence gets one token
   and may finish *)
StepSeqsIn(sq, toks, stops) ==
    [s \in DOMAIN sq |->
        IF s \in RunningIn(sq)
        THEN [token_ids |-> Append(sq[s].token_ids, toks[s]),
              finish_reason |->
                  IF Len(sq[s].token_ids) + 1 >= MaxTokens THEN "length"
                  ELSE IF s \in stops THEN "stop" ELSE None]
        ELSE sq[s]]

StepSeqs(toks, stops) == StepSeqsIn(seqs, toks, stops)

(* The orders in which a snapshot can list n of the sequences *)
Orders(req) ==
    {o \in [1..req.n -> SeqIds(req)] : \A j, k \in 1..req.n : j # k => o[j] # o[k]}

(* RequestOutput.outputs: one CompletionOutput per listed sequence, cumulative *)
Outputs(sq, order) ==
    [k \in DOMAIN order |->
        [index |-> order[k],
         text |-> Detok(sq[order[k]].token_ids),
         token_ids |-> sq[order[k]].token_ids,
         logprobs |-> IdLogprobs(sq[order[k]].token_ids),
         finish_reason |-> sq[order[k]].finish_reason]]

AllFinished(sq) == \A s \in DOMAIN sq : sq[s].finish_reason # None

(* The scheduler of the engine: three queues of sequence groups and the time of
   its last activity.  A sequence group holds the candidate sequences of a request *)
NewScheduler == [running |-> <<>>, waiting |-> <<>>, swapped |-> <<>>, last_logging_time |-> 0]

Group(req) == [seqs |-> [k \in 1..NumSeqs(req) |-> k - 1]]

(* engine.generate: the sequence group of the request joins the waiting queue *)
SchedulerAdd(sch, req) == [sch EXCEPT !.waiting = <<Group(req)>>]

(* One iteration: the group is scheduled, from whichever queue held it, and is
   freed when all its sequences have finished *)
SchedulerStep(sch, req, finished) ==
    [running |-> IF finished THEN <<>> ELSE <<Group(req)>>,
     waiting |-> <<>>, swapped |-> <<>>,
     last_logging_time |-> sch.last_logging_time + 1]

(* The scheduler after the iteration that samples toks and stops the sequences stops *)
Stepped(toks, stops) == SchedulerStep(scheduler, request, AllFinished(StepSeqs(toks, stops)))

(* engine.abort(request_id): the group of the request leaves whichever queue holds
   it, and its resources are freed; nothing happens when the engine no longer has it *)
EngineAbort(sch) == [sch EXCEPT !.running = <<>>, !.waiting = <<>>, !.swapped = <<>>]

(* result_generator yields its next snapshot: the engine has run one iteration *)
EngineYields(toks, stops) ==
    /\ submitted > 0
    /\ aborts = 0
    /\ ~engine_finished
    /\ seqs' = StepSeqs(toks, stops)
    /\ engine_finished' = AllFinished(StepSeqs(toks, stops))
    /\ consumed' = consumed + 1

(* The engine preempts the running group between two iterations and swaps it out *)
EnginePreempt ==
    /\ scheduler.running # <<>>
    /\ scheduler' = [scheduler EXCEPT !.running = <<>>, !.swapped = scheduler.running]
    /\ UNCHANGED <<sessions, endpoint, request, hf_config, pc, response, submitted, aborts, seqs,
                   engine_finished, pending, previous_texts, previous_num_tokens, role_i,
                   frames, final_res, disconnected, consumed, disc, queue_state>>

(* result_generator is exhausted: the async for loop ends *)
EngineExhausted == submitted > 0 /\ engine_finished


-----------------------------------------------------------------------------
(* OpenAI-style logprobs *)

(* logprobs = None *)
NoLogProbs ==
    [present |-> FALSE, tokens |-> <<>>, token_logprobs |-> <<>>, text_offset |-> <<>>,
     top_logprobs |-> <<>>]

(* LogProbs() *)
EmptyLogProbs ==
    [present |-> TRUE, tokens |-> <<>>, token_logprobs |-> <<>>, text_offset |-> <<>>,
     top_logprobs |-> <<>>]

(* The sum of len(token) over the first j token ids *)
RECURSIVE TokenStrLen(_, _)
TokenStrLen(token_ids, j) ==
    IF j = 0 THEN 0 ELSE TokenStrLen(token_ids, j - 1) + Len(TokenStr(token_ids[j]))

ZipLen(a, b) == IF Len(a) <= Len(b) THEN Len(a) ELSE Len(b)

(* create_logprobs: the token strings, the log-probability of each sampled token,
   and text_offset, which starts at initial_text_offset and grows by the length of
   the token string before *)
create_logprobs(token_ids, id_logprobs, initial_text_offset) ==
    [present |-> TRUE,
     tokens |-> [k \in 1..ZipLen(token_ids, id_logprobs) |-> TokenStr(token_ids[k])],
     token_logprobs |-> [k \in 1..ZipLen(token_ids, id_logprobs) |-> id_logprobs[k][token_ids[k]]],
     text_offset |-> [k \in 1..ZipLen(token_ids, id_logprobs) |->
                         initial_text_offset + TokenStrLen(token_ids, k - 1)],
     top_logprobs |-> [k \in 1..ZipLen(token_ids, id_logprobs) |->
                         {<<TokenStr(t), id_logprobs[k][t]>> : t \in DOMAIN id_logprobs[k]}]]

(* seq[start:] of Python, start counted from 0 *)
From(seq, start) == SubSeq(seq, start + 1, Len(seq))

-----------------------------------------------------------------------------
(* Frames of the event stream *)

Chunk(index, role, text, finish_reason) ==
    [kind |-> "chunk", index |-> index, role |-> role, text |-> text,
     finish_reason |-> finish_reason, logprobs |-> NoLogProbs, body |-> NoResponse]

(* create_stream_response_json of create_completion: a chunk with its logprobs *)
CompletionChunk(index, text, logprobs, finish_reason) ==
    [kind |-> "chunk", index |-> index, role |-> None, text |-> text,
     finish_reason |-> finish_reason, logprobs |-> logprobs, body |-> NoResponse]

(* data: [DONE] *)
DoneFrame ==
    [kind |-> "[DONE]", index |-> 0 - 1, role |-> None, text |-> <<>>,
     finish_reason |-> None, logprobs |-> NoLogProbs, body |-> NoResponse]

(* The one data event of the fake stream: response.json of the aggregate *)
AggregateFrame(aggregate) ==
    [kind |-> "aggregate", index |-> 0 - 1, role |-> None, text |-> <<>>,
     finish_reason |-> None, logprobs |-> NoLogProbs, body |-> aggregate]

(* A role chunk that always names index 0 *)
RoleChunk_index0(i) == Chunk(0, "assistant", <<>>, None)

(* The first chunk of a chat stream for index i: the role, no text *)
RoleChunk(i) == Chunk(i, "assistant", <<>>, None)

(* A slice that starts one character early: the last character is sent twice *)
DeltaText_offByOne(text, previous_text) ==
    SubSeq(text, IF Len(previous_text) = 0 THEN 1 ELSE Len(previous_text), Len(text))

(* output.text[len(previous_texts[i]):] *)
DeltaText(text, previous_text) == SubSeq(text, Len(previous_text) + 1, Len(text))

(* The frames one output of a snapshot produces: its delta, then its terminal
   delta when finish_reason is set *)
OutputFrames(output, previous_text) ==
    <<Chunk(output.index, None, DeltaText(output.text, previous_text), None)>>
    \o (IF output.finish_reason # None
        THEN <<Chunk(output.index, None, <<>>, output.finish_reason)>>
        ELSE <<>>)

(* The frames of one output that slice the logprobs at the length of the text sent
   so far instead of the number of tokens sent so far *)
CompletionOutputFrames_sliceByTextLen(output, previous_text, previous_num, req) ==
    <<CompletionChunk(output.index, DeltaText(output.text, previous_text),
                      IF req.logprobs # NoInt
                      THEN create_logprobs(From(output.token_ids, Len(previous_text)),
                                           From(output.logprobs, Len(previous_text)),
                                           Len(previous_text))
                      ELSE NoLogProbs,
                      None)>>
    \o (IF output.finish_reason # None
        THEN <<CompletionChunk(output.index, <<>>,
                               IF req.logprobs # NoInt THEN EmptyLogProbs ELSE NoLogProbs,
                               output.finish_reason)>>
        ELSE <<>>)

(* The frames one output of a snapshot produces in the completions stream: its
   delta, with the logprobs of the tokens past previous_num when logprobs are
   requested, then its terminal delta when finish_reason is set *)
CompletionOutputFrames(output, previous_text, previous_num, req) ==
    <<CompletionChunk(output.index, DeltaText(output.text, previous_text),
                      IF req.logprobs # NoInt
                      THEN create_logprobs(From(output.token_ids, previous_num),
                                           From(output.logprobs, previous_num),
                                           Len(previous_text))
                      ELSE NoLogProbs,
                      None)>>
    \o (IF output.finish_reason # None
        THEN <<CompletionChunk(output.index, <<>>,
                               IF req.logprobs # NoInt THEN EmptyLogProbs ELSE NoLogProbs,
                               output.finish_reason)>>
        ELSE <<>>)

-----------------------------------------------------------------------------
(* Aggregate response of the non-streaming path *)

RECURSIVE SumTokens(_)
SumTokens(outputs) ==
    IF outputs = <<>> THEN 0
    ELSE Len(Head(outputs).token_ids) + SumTokens(Tail(outputs))

(* One choice per output of final_res, with the full logprobs, from offset 0, when
   the completions request asked for logprobs *)
Choices(req, outputs) ==
    [k \in DOMAIN outputs |->
        [index |-> outputs[k].index, text |-> outputs[k].text,
         logprobs |-> IF req.logprobs # NoInt
                      THEN create_logprobs(outputs[k].token_ids, outputs[k].logprobs, 0)
                      ELSE NoLogProbs,
         finish_reason |-> outputs[k].finish_reason]]

(* An aggregate whose usage counts the choices instead of their tokens *)
AggregateResponse_countsChoices(req, outputs) ==
    [status |-> 200, type |-> "aggregate", message |-> Msg(""),
     choices |-> Choices(req, outputs),
     usage |-> [prompt_tokens |-> req.token_num,
                completion_tokens |-> Len(outputs),
                total_tokens |-> req.token_num + Len(outputs)]]

AggregateResponse(req, outputs) ==
    [status |-> 200, type |-> "aggregate", message |-> Msg(""),
     choices |-> Choices(req, outputs),
     usage |-> [prompt_tokens |-> req.token_num,
                completion_tokens |-> SumTokens(outputs),
                total_tokens |-> req.token_num + SumTokens(outputs)]]

NoFinalRes == [set |-> FALSE, outputs |-> <<>>]

(* abort_request: await self.engine.abort(request_id), the engine being in state sch *)
AbortCall(sch) ==
    /\ aborts' = aborts + 1
    /\ scheduler' = EngineAbort(sch)

(* A drain that returns the error without calling abort_request *)
DrainBody_noAbort(outputs, sch) ==
    IF disconnected
    THEN /\ response' = create_error_response(BAD_REQUEST, Msg("Client disconnected"))
         /\ pc' = "done"
         /\ scheduler' = sch
         /\ UNCHANGED <<final_res, aborts>>
    ELSE /\ final_res' = [set |-> TRUE, outputs |-> outputs]
         /\ scheduler' = sch
         /\ UNCHANGED <<aborts, response, pc>>

(* A drain that stores the snapshot before it polls is_disconnected *)
DrainBody_storesFirst(outputs, sch) ==
    IF disconnected
    THEN /\ AbortCall(sch)
         /\ response' = create_error_response(BAD_REQUEST, Msg("Client disconnected"))
         /\ pc' = "done"
         /\ final_res' = [set |-> TRUE, outputs |-> outputs]
    ELSE /\ final_res' = [set |-> TRUE, outputs |-> outputs]
         /\ scheduler' = sch
         /\ UNCHANGED <<aborts, response, pc>>

(* The body of the non-streaming async for, for the snapshot with these outputs,
   the engine being in state sch after the iteration:
   the poll of is_disconnected, then abort and the error, or final_res = res *)
DrainBody(outputs, sch) ==
    IF disconnected
    THEN /\ AbortCall(sch)
         /\ response' = create_error_response(BAD_REQUEST, Msg("Client disconnected"))
         /\ pc' = "done"
         /\ UNCHANGED final_res
    ELSE /\ final_res' = [set |-> TRUE, outputs |-> outputs]
         /\ scheduler' = sch
         /\ UNCHANGED <<aborts, response, pc>>

(* queue_state before any call of vllm_queue_state *)
NoQueueState ==
    [last_logging_time |-> 0 - 1, unfinished_sequence_groups |-> 0 - 1,
     num_running_seq |-> <<>>, num_waiting_seq |-> <<>>, num_swapped_seq |-> <<>>]

NoDisc == [happened |-> FALSE, at |-> 0, mid |-> FALSE]


-----------------------------------------------------------------------------
(* Initial state: one request has arrived at one of the two endpoints *)

ServedHfConfig == [a \in {"max_position_embeddings"} |-> DefaultContextLen]

reqVars == <<endpoint, request, hf_config>>
engineVars == <<seqs, engine_finished, consumed, scheduler>>
accVars == <<previous_texts, previous_num_tokens>>

InitMain ==
    /\ pc = "recv"
    /\ response = NoResponse
    /\ submitted = 0
    /\ aborts = 0
    /\ seqs = <<>>
    /\ scheduler = NewScheduler
    /\ queue_state = NoQueueState
    /\ engine_finished = FALSE
    /\ pending = <<>>
    /\ previous_texts = <<>>
    /\ previous_num_tokens = <<>>
    /\ role_i = 0
    /\ frames = <<>>
    /\ final_res = NoFinalRes
    /\ disconnected = FALSE
    /\ consumed = 0
    /\ disc = NoDisc

(* No other request is in flight *)
InitRest ==
    /\ InitMain
    /\ sessions = <<>>

OnePrompt(ep, req) ==
    /\ req.token_num = 1800
    /\ req.prompt_len = NoInt
    /\ (ep = "chat" => ~req.messages.is_str)

Init ==
    /\ endpoint \in {"chat", "completions"}
    /\ request \in {r \in (IF endpoint = "chat" THEN ChatRequests ELSE CompletionRequests) :
                        OnePrompt(endpoint, r)}
    /\ hf_config = ServedHfConfig
    /\ InitRest

-----------------------------------------------------------------------------
(* POST /v1/chat/completions *)

(* The handler up to its first await on the engine: the checks, engine.generate,
   and the choice of the response path *)
create_chat_completion ==
    /\ pc = "recv"
    /\ endpoint = "chat"
    /\ IF ChatValidation(request, hf_config) # NoResponse
       THEN /\ response' = ChatValidation(request, hf_config)
            /\ pc' = "done"
            /\ UNCHANGED <<submitted, seqs, scheduler>>
       ELSE /\ submitted' = submitted + 1
            /\ seqs' = NewSeqs(request)
            /\ scheduler' = SchedulerAdd(scheduler, request)
            /\ response' = IF ChatStream(request) THEN StreamingResponse ELSE NoResponse
            /\ pc' = IF ChatStream(request) THEN "chat_role" ELSE "chat_drain"
    /\ UNCHANGED <<reqVars, queue_state, sessions, aborts, engine_finished, consumed, pending, accVars, role_i,
                   frames, final_res, disconnected, disc>>

(* completion_stream_generator: the first chunk with the role, for i in range(n) *)
ChatRoleChunk ==
    /\ pc = "chat_role"
    /\ frames' = Append(frames, RoleChunk(role_i))
    /\ role_i' = role_i + 1
    /\ IF role_i + 1 < request.n
       THEN pc' = "chat_role" /\ UNCHANGED accVars
       ELSE /\ pc' = "chat_wait"
            /\ previous_texts' = [i \in 0..(request.n - 1) |-> <<>>]
            /\ previous_num_tokens' = [i \in 0..(request.n - 1) |-> 0]
    /\ UNCHANGED <<reqVars, queue_state, sessions, response, submitted, aborts, engineVars, pending, final_res,
                   disconnected, disc>>

(* async for res in result_generator: the next snapshot arrives *)
ChatStreamNext ==
    /\ pc = "chat_wait"
    /\ \E toks \in TokenChoices, stops \in SUBSET Running, order \in Orders(request) :
          /\ EngineYields(toks, stops)
          /\ scheduler' = Stepped(toks, stops)
          /\ pending' = Outputs(StepSeqs(toks, stops), order)
    /\ pc' = "chat_out"
    /\ UNCHANGED <<reqVars, queue_state, sessions, response, submitted, aborts, accVars, role_i, frames, final_res,
                   disconnected, disc>>

(* for output in res.outputs: one output, its delta and its terminal delta *)
ChatStreamOutput ==
    /\ pc = "chat_out"
    /\ pending # <<>>
    /\ Head(pending).index \in DOMAIN previous_texts
    /\ LET output == Head(pending)
           i == output.index
       IN /\ frames' = frames \o OutputFrames(output, previous_texts[i])
          /\ previous_texts' = [previous_texts EXCEPT ![i] = output.text]
          /\ previous_num_tokens' = [previous_num_tokens EXCEPT ![i] = Len(output.token_ids)]
    /\ pending' = Tail(pending)
    /\ UNCHANGED <<reqVars, queue_state, sessions, pc, response, submitted, aborts, engineVars, role_i, final_res,
                   disconnected, disc>>

(* previous_texts[i] with i outside range(n): IndexError ends the generator, and
   the response with it *)
ChatStreamIndexError ==
    /\ pc = "chat_out"
    /\ pending # <<>>
    /\ Head(pending).index \notin DOMAIN previous_texts
    /\ pc' = "crashed"
    /\ UNCHANGED <<reqVars, queue_state, sessions, response, submitted, aborts, engineVars, pending, accVars, role_i,
                   frames, final_res, disconnected, disc>>

(* yield "data: [DONE]", in the body of the async for, after the outputs of
   the snapshot *)
ChatStreamDone ==
    /\ pc = "chat_out"
    /\ pending = <<>>
    /\ frames' = Append(frames, DoneFrame)
    /\ pc' = "chat_wait"
    /\ UNCHANGED <<reqVars, queue_state, sessions, response, submitted, aborts, engineVars, pending, accVars, role_i,
                   final_res, disconnected, disc>>

(* result_generator is exhausted: the generator returns, the background task is next *)
ChatStreamEnd ==
    /\ pc = "chat_wait"
    /\ EngineExhausted
    /\ pc' = "background"
    /\ UNCHANGED <<reqVars, queue_state, sessions, response, submitted, aborts, engineVars, pending, accVars, role_i,
                   frames, final_res, disconnected, disc>>

(* Non-streaming: one pass of async for res in result_generator, with the poll of
   is_disconnected *)
ChatDrainSnapshot ==
    /\ pc = "chat_drain"
    /\ \E toks \in TokenChoices, stops \in SUBSET Running, order \in Orders(request) :
          /\ EngineYields(toks, stops)
          /\ DrainBody(Outputs(StepSeqs(toks, stops), order), Stepped(toks, stops))
    /\ UNCHANGED <<reqVars, queue_state, sessions, submitted, pending, accVars, role_i, frames, disconnected, disc>>

(* Non-streaming: the loop has ended, the aggregate response is built and returned *)
ChatDrainEnd ==
    /\ pc = "chat_drain"
    /\ EngineExhausted
    /\ final_res.set
    /\ IF request.stream
       THEN response' = StreamingResponse /\ pc' = "fake_data"
       ELSE response' = AggregateResponse(request, final_res.outputs) /\ pc' = "done"
    /\ UNCHANGED <<reqVars, queue_state, sessions, submitted, aborts, engineVars, pending, accVars, role_i, frames,
                   final_res, disconnected, disc>>


-----------------------------------------------------------------------------
(* POST /v1/completions *)

create_completion ==
    /\ pc = "recv"
    /\ endpoint = "completions"
    /\ IF CompletionValidation(request) # NoResponse
       THEN /\ response' = CompletionValidation(request)
            /\ pc' = "done"
            /\ UNCHANGED <<submitted, seqs, scheduler, accVars>>
       ELSE /\ submitted' = submitted + 1
            /\ seqs' = NewSeqs(request)
            /\ scheduler' = SchedulerAdd(scheduler, request)
            /\ IF CompletionStream(request)
               THEN /\ response' = StreamingResponse
                    /\ pc' = "cmpl_wait"
                    /\ previous_texts' = [i \in 0..(request.n - 1) |-> <<>>]
                    /\ previous_num_tokens' = [i \in 0..(request.n - 1) |-> 0]
               ELSE /\ response' = NoResponse
                    /\ pc' = "cmpl_drain"
                    /\ UNCHANGED accVars
    /\ UNCHANGED <<reqVars, queue_state, sessions, aborts, engine_finished, consumed, pending, role_i, frames,
                   final_res, disconnected, disc>>

CompletionStreamNext ==
    /\ pc = "cmpl_wait"
    /\ \E toks \in TokenChoices, stops \in SUBSET Running, order \in Orders(request) :
          /\ EngineYields(toks, stops)
          /\ scheduler' = Stepped(toks, stops)
          /\ pending' = Outputs(StepSeqs(toks, stops), order)
    /\ pc' = "cmpl_out"
    /\ UNCHANGED <<reqVars, queue_state, sessions, response, submitted, aborts, accVars, role_i, frames, final_res,
                   disconnected, disc>>

(* for output in res.outputs: one output, its delta with its logprobs and its
   terminal delta *)
CompletionStreamOutput ==
    /\ pc = "cmpl_out"
    /\ pending # <<>>
    /\ Head(pending).index \in DOMAIN previous_texts
    /\ LET output == Head(pending)
           i == output.index
       IN /\ frames' = frames \o CompletionOutputFrames(output, previous_texts[i],
                                                       previous_num_tokens[i], request)
          /\ previous_texts' = [previous_texts EXCEPT ![i] = output.text]
          /\ previous_num_tokens' = [previous_num_tokens EXCEPT ![i] = Len(output.token_ids)]
    /\ pending' = Tail(pending)
    /\ UNCHANGED <<reqVars, queue_state, sessions, pc, response, submitted, aborts, engineVars, role_i, final_res,
                   disconnected, disc>>

CompletionStreamDone ==
    /\ pc = "cmpl_out"
    /\ pending = <<>>
    /\ frames' = Append(frames, DoneFrame)
    /\ pc' = "cmpl_wait"
    /\ UNCHANGED <<reqVars, queue_state, sessions, response, submitted, aborts, engineVars, pending, accVars, role_i,
                   final_res, disconnected, disc>>

CompletionStreamEnd ==
    /\ pc = "cmpl_wait"
    /\ EngineExhausted
    /\ pc' = "background"
    /\ UNCHANGED <<reqVars, queue_state, sessions, response, submitted, aborts, engineVars, pending, accVars, role_i,
                   frames, final_res, disconnected, disc>>

CompletionDrainSnapshot ==
    /\ pc = "cmpl_drain"
    /\ \E toks \in TokenChoices, stops \in SUBSET Running, order \in Orders(request) :
          /\ EngineYields(toks, stops)
          /\ DrainBody(Outputs(StepSeqs(toks, stops), order), Stepped(toks, stops))
    /\ UNCHANGED <<reqVars, queue_state, sessions, submitted, pending, accVars, role_i, frames, disconnected, disc>>

(* The loop has ended: the aggregate is returned, as a fake stream when the
   client asked for a stream *)
CompletionDrainEnd ==
    /\ pc = "cmpl_drain"
    /\ EngineExhausted
    /\ final_res.set
    /\ IF request.stream
       THEN response' = StreamingResponse /\ pc' = "fake_data"
       ELSE response' = AggregateResponse(request, final_res.outputs) /\ pc' = "done"
    /\ UNCHANGED <<reqVars, queue_state, sessions, submitted, aborts, engineVars, pending, accVars, role_i, frames,
                   final_res, disconnected, disc>>

(* fake_stream_generator: the one data event *)
FakeStreamData ==
    /\ pc = "fake_data"
    /\ frames' = Append(frames, AggregateFrame(AggregateResponse(request, final_res.outputs)))
    /\ pc' = "fake_done"
    /\ UNCHANGED <<reqVars, queue_state, sessions, response, submitted, aborts, engineVars, pending, accVars, role_i,
                   final_res, disconnected, disc>>

(* fake_stream_generator: the terminator; this StreamingResponse has no background task *)
FakeStreamDone ==
    /\ pc = "fake_done"
    /\ frames' = Append(frames, DoneFrame)
    /\ pc' = "done"
    /\ UNCHANGED <<reqVars, queue_state, sessions, response, submitted, aborts, engineVars, pending, accVars, role_i,
                   final_res, disconnected, disc>>

-----------------------------------------------------------------------------
(* The client and the StreamingResponse *)

StreamPcs == {"chat_role", "chat_wait", "chat_out", "cmpl_wait", "cmpl_out"}

DrainPcs == {"chat_drain", "cmpl_drain"}

FakePcs == {"fake_data", "fake_done"}

DiscNow == [happened |-> TRUE, at |-> consumed, mid |-> ~engine_finished]

(* A disconnect of a true stream that is answered with an abort on the spot, the
   background task still to come *)
StreamDisconnect_abortsAtOnce ==
    /\ pc \in StreamPcs
    /\ disconnected' = TRUE
    /\ disc' = DiscNow
    /\ AbortCall(scheduler)
    /\ pc' = "background"
    /\ UNCHANGED <<reqVars, queue_state, sessions, response, submitted, seqs, engine_finished, consumed,
                   pending, accVars, role_i, frames, final_res>>

(* The client goes away during a true stream: the StreamingResponse stops the
   generator and goes on to its background task *)
StreamDisconnect ==
    /\ pc \in StreamPcs
    /\ disconnected' = TRUE
    /\ disc' = DiscNow
    /\ pc' = "background"
    /\ UNCHANGED <<reqVars, queue_state, sessions, response, submitted, aborts, engineVars, pending, accVars, role_i,
                   frames, final_res>>

(* The client goes away during the non-streaming drain: only the next poll of
   is_disconnected sees it *)
DrainDisconnect ==
    /\ pc \in DrainPcs
    /\ ~disconnected
    /\ disconnected' = TRUE
    /\ disc' = DiscNow
    /\ UNCHANGED <<reqVars, queue_state, sessions, pc, response, submitted, aborts, engineVars, pending, accVars,
                   role_i, frames, final_res>>

(* The client goes away during the fake stream: the response stops, nothing follows *)
FakeStreamDisconnect ==
    /\ pc \in FakePcs
    /\ disconnected' = TRUE
    /\ disc' = DiscNow
    /\ pc' = "done"
    /\ UNCHANGED <<reqVars, queue_state, sessions, response, submitted, aborts, engineVars, pending, accVars, role_i,
                   frames, final_res>>

(* A background task that ends without the abort *)
abort_request_skipped ==
    /\ pc = "background"
    /\ pc' = "done"
    /\ UNCHANGED <<reqVars, queue_state, sessions, response, submitted, aborts, engineVars, pending, accVars, role_i,
                   frames, final_res, disconnected, disc>>

(* background_tasks of the true stream: abort_request, after the response *)
abort_request ==
    /\ pc = "background"
    /\ AbortCall(scheduler)
    /\ pc' = "done"
    /\ UNCHANGED <<reqVars, queue_state, sessions, response, submitted, seqs, engine_finished, consumed, pending,
                   accVars, role_i, frames, final_res, disconnected, disc>>

(* abort_request called once more for the request_id of a request whose handling
   is over: a second cancel, or a cancel after natural completion *)
cancel_raisesWhenGone ==
    /\ pc \in {"done", "crashed"}
    /\ submitted > 0
    /\ aborts < MaxCancels
    /\ AbortCall(scheduler)
    /\ pc' = IF scheduler = EngineAbort(scheduler) THEN "crashed" ELSE pc
    /\ UNCHANGED <<reqVars, queue_state, sessions, response, submitted, seqs, engine_finished, consumed,
                   pending, accVars, role_i, frames, final_res, disconnected, disc>>

cancel ==
    /\ pc \in {"done", "crashed"}
    /\ submitted > 0
    /\ aborts < MaxCancels
    /\ AbortCall(scheduler)
    /\ UNCHANGED <<reqVars, queue_state, sessions, pc, response, submitted, seqs, engine_finished, consumed,
                   pending, accVars, role_i, frames, final_res, disconnected, disc>>

-----------------------------------------------------------------------------
(* RunpodVLLM.vllm_queue_state *)

(* [len(x.seqs) for x in queue] *)
NumSeq(queue) == [k \in DOMAIN queue |-> Len(queue[k].seqs)]

(* scheduler.get_num_unfinished_seq_groups() *)
get_num_unfinished_seq_groups(sch) == Len(sch.waiting) + Len(sch.running) + Len(sch.swapped)

QueueState(sch) ==
    [last_logging_time |-> sch.last_logging_time,
     unfinished_sequence_groups |-> get_num_unfinished_seq_groups(sch),
     num_running_seq |-> NumSeq(sch.running),
     num_waiting_seq |-> NumSeq(sch.waiting),
     num_swapped_seq |-> NumSeq(sch.swapped)]

(* A queue introspection that takes the running groups off the queue it reads *)
vllm_queue_state_draining ==
    /\ queue_state' = QueueState(scheduler)
    /\ scheduler' = [scheduler EXCEPT !.running = <<>>]
    /\ UNCHANGED <<sessions, endpoint, request, hf_config, pc, response, submitted, aborts, seqs,
                   engine_finished, pending, previous_texts, previous_num_tokens, role_i,
                   frames, final_res, disconnected, consumed, disc>>

(* The autoscaler asks for the state of the queue, at any moment *)
vllm_queue_state ==
    /\ queue_state' = QueueState(scheduler)
    /\ UNCHANGED <<sessions, endpoint, request, hf_config, pc, response, submitted, aborts, seqs,
                   scheduler, engine_finished, pending, previous_texts, previous_num_tokens,
                   role_i, frames, final_res, disconnected, consumed, disc>>

-----------------------------------------------------------------------------

Next ==
    \/ create_chat_completion
    \/ ChatRoleChunk
    \/ ChatStreamNext
    \/ ChatStreamOutput
    \/ ChatStreamIndexError
    \/ ChatStreamDone
    \/ ChatStreamEnd
    \/ ChatDrainSnapshot
    \/ ChatDrainEnd
    \/ create_completion
    \/ CompletionStreamNext
    \/ CompletionStreamOutput
    \/ CompletionStreamDone
    \/ CompletionStreamEnd
    \/ CompletionDrainSnapshot
    \/ CompletionDrainEnd
    \/ FakeStreamData
    \/ FakeStreamDone
    \/ StreamDisconnect
    \/ DrainDisconnect
    \/ FakeStreamDisconnect
    \/ abort_request

Spec == Init /\ [][Next]_vars

(* The steps of the server and the engine; the client's disconnects are not among them *)
Progress ==
    \/ create_chat_completion
    \/ ChatRoleChunk
    \/ ChatStreamNext
    \/ ChatStreamOutput
    \/ ChatStreamIndexError
    \/ ChatStreamDone
    \/ ChatStreamEnd
    \/ ChatDrainSnapshot
    \/ ChatDrainEnd
    \/ create_completion
    \/ CompletionStreamNext
    \/ CompletionStreamOutput
    \/ CompletionStreamDone
    \/ CompletionStreamEnd
    \/ CompletionDrainSnapshot
    \/ CompletionDrainEnd
    \/ FakeStreamData
    \/ FakeStreamDone
    \/ abort_request

(* The requests followed under fairness: those without beam search, which changes
   no step of a handler beyond the streaming decision that best_of also drives, and
   without logprobs, which change the content of frames and no step *)
FairInit == Init /\ ~request.use_beam_search /\ request.logprobs = NoInt

(* The event loop runs every task that can run, and the engine keeps iterating *)
FairSpec == FairInit /\ [][Next]_vars /\ WF_vars(Progress)


-----------------------------------------------------------------------------
(* The operations on the engine that are not steps of the handlers, each in a
   specification of its own over the requests for one choice *)

OneChoiceInit == Init /\ request.n = 1 /\ ~request.use_beam_search

NextCancel == Next \/ cancel

SpecCancel == OneChoiceInit /\ [][NextCancel]_vars

NextQueue == Next \/ EnginePreempt \/ vllm_queue_state

SpecQueue == OneChoiceInit /\ [][NextQueue]_vars

-----------------------------------------------------------------------------
(* The completions true stream with logprobs, alone: the requests that pass every
   check, ask for a stream and for logprobs, and are truly streamed *)

InitLogprobs ==
    /\ Init
    /\ endpoint = "completions"
    /\ CompletionValidation(request) = NoResponse
    /\ CompletionStream(request)
    /\ request.logprobs # NoInt

NextLogprobs ==
    \/ create_completion
    \/ CompletionStreamNext
    \/ CompletionStreamOutput
    \/ CompletionStreamDone
    \/ CompletionStreamEnd
    \/ StreamDisconnect
    \/ abort_request

SpecLogprobs == InitLogprobs /\ [][NextLogprobs]_vars

-----------------------------------------------------------------------------
(* Validation alone, over every request body: the handlers up to engine.generate *)

InitValidation ==
    /\ endpoint \in {"chat", "completions"}
    /\ request \in (IF endpoint = "chat" THEN ChatRequests ELSE CompletionRequests)
    /\ hf_config = ServedHfConfig
    /\ InitRest

NextValidation ==
    \/ create_chat_completion
    \/ create_completion

SpecValidation == InitValidation /\ [][NextValidation]_vars

(* check_length alone, over prompt lengths, max_tokens and model configurations:
   chat requests that pass every earlier check *)
LengthRequests ==
    [ model : {"served"}, logit_bias : {None},
      messages : {[is_str |-> TRUE, roles |-> <<>>]}, prompt_len : {NoInt},
      echo : {FALSE}, suffix : {None}, logprobs : {NoInt},
      token_num : {824, 1800, 1848, 1849, 1900, 3896}, max_tokens : {1, 200, 201},
      bad_sampling : {FALSE}, n : {1}, best_of : {NoInt},
      use_beam_search : {FALSE}, stream : {FALSE} ]

InitLength ==
    /\ endpoint = "chat"
    /\ request \in LengthRequests
    /\ hf_config \in HfConfigs
    /\ InitRest

NextLength == create_chat_completion

SpecLength == InitLength /\ [][NextLength]_vars


-----------------------------------------------------------------------------
(* Observations on a run *)

(* The request was submitted and its response is the true stream *)
IsTrueStream ==
    /\ submitted > 0
    /\ \/ endpoint = "chat" /\ request.stream
       \/ endpoint = "completions" /\ CompletionStream(request)

(* The true stream ran to its end: no disconnect, no exception *)
StreamEndedNaturally == IsTrueStream /\ pc \in {"background", "done"} /\ ~disconnected

IsDelta(f) == f.kind = "chunk" /\ f.role = None

IsTerminal(f) == IsDelta(f) /\ f.finish_reason # None

IsRole(f) == f.kind = "chunk" /\ f.role = "assistant"

(* The text fragments of the delta events of index i, concatenated in emission order *)
RECURSIVE EmittedText(_, _)
EmittedText(fs, i) ==
    IF fs = <<>> THEN <<>>
    ELSE EmittedText(SubSeq(fs, 1, Len(fs) - 1), i)
         \o (IF IsDelta(fs[Len(fs)]) /\ fs[Len(fs)].index = i THEN fs[Len(fs)].text ELSE <<>>)

Positions(P(_)) == {k \in 1..Len(frames) : P(frames[k])}

-----------------------------------------------------------------------------
(* C1: in a true stream, at every moment the text fragments emitted for an index,
   concatenated in emission order, are exactly the cumulative text of the last
   snapshot handled for that index, and when the stream has run to its end they
   are the final text the engine generated for the index: nothing twice, nothing
   skipped, in whatever order the snapshots list the indices. *)
C1_FragmentsConcatenateToText ==
    IsTrueStream =>
        \A i \in DOMAIN previous_texts :
            /\ EmittedText(frames, i) = previous_texts[i]
            /\ StreamEndedNaturally => EmittedText(frames, i) = Detok(seqs[i].token_ids)

(* A stream of two indices that ran to its end, one index having received its text
   in two fragments of different snapshots *)
C1_Witness ==
    /\ StreamEndedNaturally
    /\ request.n = 2
    /\ consumed >= 2
    /\ \E i \in DOMAIN previous_texts :
          /\ Len(EmittedText(frames, i)) >= 3
          /\ Cardinality({k \in Positions(IsDelta) : frames[k].index = i /\ frames[k].text # <<>>}) >= 2

(* C2: in a true stream data: [DONE] is the last frame, written once, after the
   finish-reason delta of every index. *)
C2_DoneOnceAndLast ==
    IsTrueStream =>
        \A k \in 1..Len(frames) :
            frames[k].kind = "[DONE]" =>
                /\ k = Len(frames)
                /\ \A i \in 0..(request.n - 1) :
                      \E j \in 1..(k - 1) : IsTerminal(frames[j]) /\ frames[j].index = i

(* C3: in a true stream of n sequences every index has at most one terminal delta,
   and no delta of the index follows its terminal delta. *)
C3_OneTerminalDeltaPerIndex ==
    (IsTrueStream /\ NumSeqs(request) = request.n) =>
        \A k \in 1..Len(frames) :
            IsTerminal(frames[k]) =>
                \A j \in (k + 1)..Len(frames) :
                    ~(IsDelta(frames[j]) /\ frames[j].index = frames[k].index)

(* C4: in a chat true stream the role announcements are written for the indices
   0, 1, ... in turn, one each, all n of them before the first snapshot is awaited,
   and every content or finish-reason delta of an index comes after the role
   announcement of that index. *)
C4_RoleAnnouncedOnceAndFirst ==
    (IsTrueStream /\ endpoint = "chat") =>
        /\ \A i \in 0..(request.n - 1) :
              Cardinality({k \in Positions(IsRole) : frames[k].index = i})
                  = (IF i < role_i THEN 1 ELSE 0)
        /\ \A k \in Positions(IsRole) : frames[k].index \in 0..(request.n - 1)
        /\ pc \in {"chat_wait", "chat_out"} => role_i = request.n
        /\ \A k \in Positions(IsDelta) :
              \E j \in 1..(k - 1) : IsRole(frames[j]) /\ frames[j].index = frames[k].index

(* A chat stream of two indices in which index 1 was delivered before index 0 and
   both indices have their finish-reason delta *)
C4_Witness ==
    /\ IsTrueStream
    /\ endpoint = "chat"
    /\ request.n = 2
    /\ \E k \in Positions(IsDelta) :
          /\ frames[k].index = 1
          /\ frames[k].text # <<>>
          /\ \A j \in 1..(k - 1) : ~(IsDelta(frames[j]) /\ frames[j].index = 0)
    /\ \A i \in 0..1 : \E k \in Positions(IsTerminal) : frames[k].index = i


(* C5: a non-streaming request whose client disconnected after k snapshots, k > 0,
   with more snapshots to come, ends with one abort call, the 400 error
   "Client disconnected", and nothing else sent. *)
C5_DisconnectMidDrainAbortsOnce ==
    (pc = "done" /\ submitted > 0 /\ ~IsTrueStream /\ disc.happened /\ disc.mid /\ disc.at > 0) =>
        /\ aborts = 1
        /\ response.status = 400
        /\ response.type = "invalid_request_error"
        /\ response.message.text = "Client disconnected"
        /\ response.choices = <<>>
        /\ frames = <<>>

(* A completions request and a chat request can both end this way; here the
   completions one, asked as a stream but not truly streamed *)
C5_Witness ==
    /\ pc = "done"
    /\ endpoint = "completions"
    /\ ~IsTrueStream
    /\ disc.happened /\ disc.mid /\ disc.at = 1
    /\ consumed = 2
    /\ aborts = 1

(* C6, as claimed: once the client of a submitted request has disconnected, the
   abort does not wait for a further snapshot, so no snapshot is taken from the
   engine while the client is gone and the abort is not yet issued. *)
C6_NoSnapshotAfterDisconnect ==
    [][(disconnected /\ submitted > 0 /\ aborts = 0) => consumed' = consumed]_vars

(* C6, amended: after a disconnect a snapshot is taken only by the non-streaming
   drain, whose poll then issues the abort and ends the handler; and every
   disconnect of a submitted request leads to the abort or to the request having
   finished in the engine. *)
C6_AbortOnDisconnect ==
    /\ [][(disconnected /\ submitted > 0 /\ aborts = 0 /\ consumed' # consumed)
             => (pc \in DrainPcs /\ aborts' = 1 /\ pc' = "done"
                 /\ final_res' = final_res /\ frames' = frames)]_vars
    /\ [][(~disconnected /\ disconnected' /\ pc \in StreamPcs) => pc' = "background"]_vars
    /\ ((disconnected /\ submitted > 0) ~> (aborts > 0 \/ engine_finished))

(* The abort issued for a client that left a true stream before the engine finished *)
C6_Witness ==
    /\ disconnected
    /\ aborts = 1
    /\ ~engine_finished
    /\ disc.mid
    /\ IsTrueStream
    /\ consumed >= 1

(* C7: a completions request is truly streamed exactly when stream is set, best_of
   is unset or equals n, and beam search is off.  A request with stream set that is
   not truly streamed never gets a delta chunk: to a client that stays connected
   it gets one data event with the aggregate over the n indices and then one
   [DONE]; a client seen disconnected during the drain gets the 400 of C5. *)
C7_CompletionStreamDecision ==
    (endpoint = "completions" /\ submitted > 0) =>
        LET expected == /\ request.stream
                        /\ (request.best_of = NoInt \/ request.best_of = Some(request.n))
                        /\ ~request.use_beam_search
        IN /\ pc \in {"cmpl_wait", "cmpl_out"} => expected
           /\ pc \in {"cmpl_drain", "fake_data", "fake_done"} => ~expected
           /\ Positions(IsDelta) # {} => expected
           /\ (\E k \in 1..Len(frames) : frames[k].kind = "aggregate") => (request.stream /\ ~expected)
           /\ (request.stream /\ ~expected) =>
                 /\ Len(frames) <= 2
                 /\ Len(frames) >= 1 =>
                       /\ frames[1].kind = "aggregate"
                       /\ frames[1].body = AggregateResponse(request, final_res.outputs)
                       /\ Len(frames[1].body.choices) = request.n
                       /\ \A k \in 1..request.n :
                             LET c == frames[1].body.choices[k]
                             IN /\ c.text = Detok(seqs[c.index].token_ids)
                                /\ c.finish_reason # None
                                /\ \A j \in 1..request.n : j # k => frames[1].body.choices[j].index # c.index
                 /\ Len(frames) = 2 => frames[2] = DoneFrame
                 /\ (pc = "done" /\ ~disconnected) => (Len(frames) = 2 /\ response = StreamingResponse)
                 /\ response.status = 400 => (disconnected /\ frames = <<>>)

(* stream = true, n = 1, best_of = 2: the fake stream, delivered in full *)
C7_Witness ==
    /\ endpoint = "completions"
    /\ request.stream
    /\ request.n = 1
    /\ request.best_of = Some(2)
    /\ ~request.use_beam_search
    /\ pc = "done"
    /\ ~disconnected
    /\ Len(frames) = 2
    /\ frames[1].kind = "aggregate"
    /\ frames[2].kind = "[DONE]"

(* C8: check_length rejects, with a 400 that reports the limit, the total and the
   two counts, exactly when the prompt's token count plus max_tokens is larger
   than the context window; the exact fit is accepted and goes on to the engine. *)
C8_LengthGuard ==
    pc # "recv" =>
        IF request.token_num + request.max_tokens > context_len(hf_config)
        THEN /\ response.status = 400
             /\ response.type = "invalid_request_error"
             /\ response.message.limit = context_len(hf_config)
             /\ response.message.total = request.token_num + request.max_tokens
             /\ response.message.prompt = request.token_num
             /\ response.message.completion = request.max_tokens
             /\ submitted = 0
        ELSE /\ response.status # 400
             /\ submitted = 1

(* 1900 + 200 against 2048: rejected, reported total 2100 *)
C8_Witness ==
    /\ pc = "done"
    /\ request.token_num = 1900
    /\ request.max_tokens = 200
    /\ response.status = 400
    /\ response.message.limit = 2048
    /\ response.message.total = 2100
    /\ submitted = 0

(* C9: no request whose prompt token count plus max_tokens exceeds the context
   window is submitted to the engine, on either endpoint. *)
C9_LengthCheckedBeforeSubmission ==
    submitted > 0 => request.token_num + request.max_tokens <= context_len(hf_config)

(* C10: a chat request for the served model, without logit_bias, whose messages
   hold an unknown role ends with a 400 of type invalid_request_error, and is
   neither submitted nor aborted. *)
C10_UnknownRoleIsInvalidRequest ==
    (endpoint = "chat" /\ pc = "done" /\ request.model = "served" /\ request.logit_bias = None
        /\ UnknownRole(request)) =>
        /\ response.status = 400
        /\ response.type = "invalid_request_error"
        /\ submitted = 0
        /\ aborts = 0

(* C11: on both endpoints a request whose model is not the served one ends with
   the 404 of type invalid_request_error, whatever else it carries (logit_bias,
   echo, suffix, a prompt list, an unknown role, a prompt too long, sampling
   parameters that do not validate), and is never submitted to the engine. *)
C11_ModelCheckedFirst ==
    (pc # "recv" /\ request.model # "served") =>
        /\ pc = "done"
        /\ response = create_error_response(NOT_FOUND, Msg("The model does not exist."))
        /\ response.status = 404
        /\ response.type = "invalid_request_error"
        /\ submitted = 0
        /\ seqs = <<>>

(* A completions request for another model that also carries every field the
   later checks reject, and a chat request of the same kind *)
C11_Witness ==
    /\ pc = "done"
    /\ request.model = "other"
    /\ request.logit_bias # None
    /\ request.bad_sampling
    /\ request.token_num = 1900
    /\ \/ endpoint = "completions" /\ request.echo /\ request.suffix # None
             /\ request.prompt_len = Some(2)
       \/ endpoint = "chat" /\ UnknownRole(request)
    /\ response.status = 404

(* The fields and failures that C12 names, per endpoint *)
Unsupported(ep, req) ==
    \/ req.logit_bias # None
    \/ /\ ep = "completions"
       /\ \/ req.echo
          \/ req.suffix # None
          \/ req.prompt_len # NoInt /\ req.prompt_len[1] # 1
          \/ ~SamplingParamsOK(req)

(* C12, as claimed: every request that carries logit_bias, or on completions echo,
   suffix, a prompt list of zero or several elements or sampling parameters that
   do not validate, ends with a 400 and is never submitted. *)
C12_UnsupportedIs400 ==
    (pc # "recv" /\ Unsupported(endpoint, request)) =>
        /\ response.status = 400
        /\ submitted = 0

(* C12, amended: such a request is never submitted; when it names the served model
   it ends with a 400 of type invalid_request_error, and when it names another
   model the model check has answered first, with the 404. *)
C12_UnsupportedRejected ==
    (pc # "recv" /\ Unsupported(endpoint, request)) =>
        /\ pc = "done"
        /\ submitted = 0
        /\ seqs = <<>>
        /\ response.type = "invalid_request_error"
        /\ response.status = (IF request.model = "served" THEN 400 ELSE 404)

(* A completions request for the served model whose only fault is its suffix *)
C12_Witness ==
    /\ pc = "done"
    /\ endpoint = "completions"
    /\ request.model = "served"
    /\ request.suffix # None
    /\ ~request.echo /\ request.logit_bias = None /\ request.prompt_len = Some(1)
    /\ SamplingParamsOK(request)
    /\ response.status = 400
    /\ response.message.text = "suffix is not currently supported"

(* The handling of the request is over: the handler has returned and its response,
   with its background task, has ended, or the stream's generator has raised *)
ResponseEnded == pc \in {"done", "crashed"}

(* C13: when the response of a submitted request has ended, on whatever path, the
   engine has been sent an abort for the request unless the request had already
   finished in the engine. *)
C13_AbortedOrFinishedAtEnd ==
    (ResponseEnded /\ submitted > 0) => (aborts > 0 \/ engine_finished)

(* What the engine holds of the request *)
EngineState == <<scheduler, seqs, engine_finished>>

(* C14: a call of cancel for a request that the engine has already been told to
   abort, or that has finished, changes nothing in the engine and raises nothing:
   the engine is after the call as it was before it, and the handler's response
   and position are those of the first call. *)
C14_CancelIdempotent ==
    [][(aborts' = aborts + 1 /\ (aborts > 0 \/ engine_finished))
          => /\ EngineState' = EngineState
             /\ response' = response
             /\ frames' = frames
             /\ pc' \in {"done", "crashed"}
             /\ pc = "crashed" <=> pc' = "crashed"]_vars

(* Two calls for one request whose stream had raised with the request running:
   the first call took the group off the scheduler, the second found nothing *)
C14_Witness ==
    /\ pc = "crashed"
    /\ aborts = 2
    /\ ~engine_finished
    /\ consumed >= 1
    /\ scheduler = EngineAbort(scheduler)

(* C16: a call of vllm_queue_state returns the lengths of the sequence lists of
   the running, waiting and swapped groups, the number of unfinished groups and
   the scheduler's last_logging_time, and changes neither the scheduler nor
   anything of the request in flight, wherever that request is in its life. *)
C16_QueueStateReadOnly ==
    [][(queue_state' # queue_state)
          => /\ queue_state' = QueueState(scheduler)
             /\ queue_state'.num_running_seq = NumSeq(scheduler'.running)
             /\ queue_state'.num_waiting_seq = NumSeq(scheduler'.waiting)
             /\ queue_state'.num_swapped_seq = NumSeq(scheduler'.swapped)
             /\ queue_state'.last_logging_time = scheduler'.last_logging_time
             /\ UNCHANGED <<sessions, endpoint, request, hf_config, pc, response, submitted, aborts,
                            seqs, scheduler, engine_finished, pending, previous_texts,
                            previous_num_tokens, role_i, frames, final_res, disconnected,
                            consumed, disc>>]_vars

(* The call made while a stream is between two snapshots, its group of two
   candidates running: one running group, none waiting, none swapped *)
C16_Witness ==
    /\ pc \in {"chat_wait", "cmpl_wait"}
    /\ consumed = 1
    /\ ~engine_finished
    /\ scheduler.running # <<>>
    /\ queue_state = QueueState(scheduler)
    /\ queue_state.num_running_seq = <<2>>
    /\ queue_state.unfinished_sequence_groups = 1
    /\ queue_state.last_logging_time = 1

(* The tokens the engine generated in all, over the sequences these choices name *)
RECURSIVE FinalTokenCount(_)
FinalTokenCount(choices) ==
    IF choices = <<>> THEN 0
    ELSE Len(seqs[Head(choices).index].token_ids) + FinalTokenCount(Tail(choices))

(* C15: the aggregate response of a non-streaming request has one choice for each
   of the n outputs of the final snapshot, no index twice, each with the full text
   and the finish reason the engine ended that sequence with; its usage counts the
   prompt's tokens, the tokens of these sequences summed, and the two added. *)
C15_AggregateOfFinalSnapshot ==
    (pc = "done" /\ response.type = "aggregate") =>
        /\ ~request.stream
        /\ engine_finished
        /\ Len(response.choices) = request.n
        /\ \A k \in 1..Len(response.choices) :
              LET c == response.choices[k]
              IN /\ c.index \in DOMAIN seqs
                 /\ c.text = Detok(seqs[c.index].token_ids)
                 /\ c.finish_reason = seqs[c.index].finish_reason
                 /\ c.finish_reason # None
                 /\ \A j \in 1..Len(response.choices) :
                       j # k => response.choices[j].index # c.index
        /\ response.usage.prompt_tokens = request.token_num
        /\ response.usage.completion_tokens = FinalTokenCount(response.choices)
        /\ response.usage.total_tokens
              = response.usage.prompt_tokens + response.usage.completion_tokens

(* Two choices, one stopped after one token and one cut at two: three tokens in all *)
C15_Witness ==
    /\ pc = "done"
    /\ response.type = "aggregate"
    /\ ~disc.happened
    /\ request.n = 2
    /\ Len(response.choices) = 2
    /\ \E k \in 1..2 : response.choices[k].finish_reason = "stop"
    /\ \E k \in 1..2 : response.choices[k].finish_reason = "length"
    /\ response.usage.completion_tokens = 3
    /\ response.usage.total_tokens = 1803

(* C17: a submitted chat request is truly streamed exactly when its stream flag is
   set, whatever best_of and use_beam_search are: with the flag it gets the
   StreamingResponse of the generator and never enters the drain, without it it
   writes no frame; the fake stream is never entered and no aggregate data event
   is ever written on this endpoint. *)
C17_ChatStreamsOnFlagAlone ==
    (endpoint = "chat" /\ submitted > 0) =>
        /\ request.stream =>
              /\ pc \in {"chat_role", "chat_wait", "chat_out", "background", "crashed", "done"}
              /\ response = StreamingResponse
              /\ ~final_res.set
        /\ ~request.stream =>
              /\ pc \in {"chat_drain", "done"}
              /\ frames = <<>>
              /\ response # StreamingResponse
        /\ pc \notin FakePcs
        /\ \A k \in 1..Len(frames) : frames[k].kind # "aggregate"

(* stream = true with n = 1, best_of = 2 and beam search: a content delta has been
   sent all the same *)
C17_Witness ==
    /\ endpoint = "chat"
    /\ request.stream
    /\ request.n = 1
    /\ request.best_of = Some(2)
    /\ request.use_beam_search
    /\ \E k \in Positions(IsDelta) : frames[k].text # <<>>
    /\ \E k \in 1..Len(frames) : frames[k].kind = "[DONE]"

(* C18: in a true stream every output the generator handles has its index in
   0..n-1, so previous_texts and previous_num_tokens are never read or written
   outside their n slots. *)
C18_IndexWithinAccumulationState ==
    IsTrueStream =>
        /\ pc # "crashed"
        /\ pc \in {"chat_out", "cmpl_out"} =>
              \A k \in 1..Len(pending) :
                  /\ pending[k].index \in 0..(request.n - 1)
                  /\ pending[k].index \in DOMAIN previous_texts
                  /\ pending[k].index \in DOMAIN previous_num_tokens

(* The logprobs fragments of the delta events of index i, list by list, concatenated
   in emission order *)
RECURSIVE EmittedLogprobs(_, _)
EmittedLogprobs(fs, i) ==
    IF fs = <<>> THEN [tokens |-> <<>>, token_logprobs |-> <<>>, text_offset |-> <<>>]
    ELSE LET rest == EmittedLogprobs(SubSeq(fs, 1, Len(fs) - 1), i)
             f == fs[Len(fs)]
         IN IF IsDelta(f) /\ f.index = i
            THEN [tokens |-> rest.tokens \o f.logprobs.tokens,
                  token_logprobs |-> rest.token_logprobs \o f.logprobs.token_logprobs,
                  text_offset |-> rest.text_offset \o f.logprobs.text_offset]
            ELSE rest

(* The non-streaming logprobs of a sequence of generated tokens: from offset 0 *)
FullLogprobs(token_ids) == create_logprobs(token_ids, IdLogprobs(token_ids), 0)

(* C19: in a completions true stream with logprobs, at every moment the token
   strings and the token log-probabilities of the fragments sent for an index,
   concatenated, are those of the tokens counted in previous_num_tokens, each once
   and in order, and when the stream has run to its end they are those of all the
   tokens of the final snapshot; every delta carries a logprobs view, and that of a
   finish-reason delta is empty. *)
C19_LogprobFragmentsCoverTokensOnce ==
    (IsTrueStream /\ endpoint = "completions" /\ request.logprobs # NoInt) =>
        /\ \A i \in DOMAIN previous_num_tokens :
              LET e == EmittedLogprobs(frames, i)
                  sent == SubSeq(seqs[i].token_ids, 1, previous_num_tokens[i])
              IN /\ previous_num_tokens[i] <= Len(seqs[i].token_ids)
                 /\ e.tokens = FullLogprobs(sent).tokens
                 /\ e.token_logprobs = FullLogprobs(sent).token_logprobs
                 /\ Len(e.tokens) = previous_num_tokens[i]
                 /\ StreamEndedNaturally =>
                       /\ e.tokens = FullLogprobs(seqs[i].token_ids).tokens
                       /\ e.token_logprobs = FullLogprobs(seqs[i].token_ids).token_logprobs
        /\ \A k \in Positions(IsDelta) : frames[k].logprobs.present
        /\ \A k \in Positions(IsTerminal) : frames[k].logprobs = EmptyLogProbs

(* Two indices streamed to the end, one of them with its two tokens sent in two
   fragments of one token each *)
C19_Witness ==
    /\ StreamEndedNaturally
    /\ endpoint = "completions"
    /\ request.logprobs # NoInt
    /\ request.n = 2
    /\ \E i \in DOMAIN previous_num_tokens :
          /\ Len(EmittedLogprobs(frames, i).tokens) = 2
          /\ Cardinality({k \in Positions(IsDelta) :
                             frames[k].index = i /\ Len(frames[k].logprobs.tokens) = 1}) = 2
    /\ \E k \in Positions(IsTerminal) : frames[k].logprobs = EmptyLogProbs

(* C20: when a completions true stream with logprobs has run to its end, the
   text_offset values of the fragments sent for an index, concatenated, are the
   text_offset values of the non-streaming logprobs of the same tokens. *)
C20_StreamOffsetsEqualFullOffsets ==
    (StreamEndedNaturally /\ endpoint = "completions" /\ request.logprobs # NoInt) =>
        \A i \in DOMAIN previous_num_tokens :
            EmittedLogprobs(frames, i).text_offset = FullLogprobs(seqs[i].token_ids).text_offset

(* C21: in every run of one request engine.abort is called at most once, on
   whichever response path and however the disconnect and the snapshots fall, and
   never for a request that was rejected before engine.generate. *)
C21_AtMostOneAbort ==
    /\ aborts <= 1
    /\ submitted = 0 => aborts = 0
    /\ (pc = "done" /\ response.type = "invalid_request_error" /\ ~disconnected) => aborts = 0

(* A non-streaming request whose client left before the first snapshot: the poll on
   that snapshot made the one abort call *)
C21_Witness ==
    /\ pc = "done"
    /\ ~IsTrueStream
    /\ submitted = 1
    /\ disc.happened
    /\ disc.at = 0
    /\ consumed = 1
    /\ aborts = 1
    /\ response.status = 400

(* The request was submitted and is answered on the non-streaming path *)
IsDrained == submitted > 0 /\ ~IsTrueStream

(* The aggregate response has been built: returned as it is, or as a fake stream *)
AggregateBuilt ==
    \/ response.type = "aggregate"
    \/ pc \in FakePcs
    \/ \E k \in 1..Len(frames) : frames[k].kind = "aggregate"

(* final_res holds the snapshot of the engine's latest iteration *)
FinalResIsLatest ==
    /\ final_res.set
    /\ \A k \in 1..Len(final_res.outputs) :
          LET o == final_res.outputs[k]
          IN /\ o.token_ids = seqs[o.index].token_ids
             /\ o.text = Detok(seqs[o.index].token_ids)
             /\ o.finish_reason = seqs[o.index].finish_reason

(* C22: on the non-streaming path the aggregate is built only when the engine's
   stream has ended and no poll has seen a disconnect, that is no snapshot was
   taken after the client left, and it is built from the last snapshot; a snapshot
   taken after the client left ends the handler with the 400 and is not stored in
   final_res; and when the loop ends without a disconnect seen, final_res is set. *)
C22_AggregateOnlyFromLastSnapshot ==
    IsDrained =>
        /\ AggregateBuilt =>
              /\ engine_finished
              /\ aborts = 0
              /\ disc.happened => disc.at = consumed
              /\ FinalResIsLatest
              /\ response.type = "aggregate" => response = AggregateResponse(request, final_res.outputs)
        /\ (disc.happened /\ consumed > disc.at) =>
              /\ consumed = disc.at + 1
              /\ pc = "done"
              /\ response = create_error_response(BAD_REQUEST, Msg("Client disconnected"))
              /\ ~AggregateBuilt
              /\ final_res.set <=> disc.at > 0
              /\ \A k \in 1..Len(final_res.outputs) :
                    Len(final_res.outputs[k].token_ids) <= disc.at
        /\ (pc \in DrainPcs /\ EngineExhausted) => final_res.set
        /\ (pc \in DrainPcs /\ consumed > 0) => FinalResIsLatest

(* The client left after the first snapshot and the second, final one was taken
   under the disconnect: final_res still holds the first *)
C22_Witness ==
    /\ IsDrained
    /\ pc = "done"
    /\ disc.happened
    /\ disc.at = 1
    /\ consumed = 2
    /\ engine_finished
    /\ final_res.set
    /\ \A k \in 1..Len(final_res.outputs) : Len(final_res.outputs[k].token_ids) = 1
    /\ response.status = 400

(* The attributes of the model metadata in the order of the claim *)
WindowFields == <<"max_sequence_length", "seq_length", "max_position_embeddings">>

(* The value of the first of them that hf_config has, 2048 when it has none *)
FirstAvailableWindow ==
    IF \E k \in 1..Len(WindowFields) : WindowFields[k] \in DOMAIN hf_config
    THEN hf_config[WindowFields[CHOOSE k \in 1..Len(WindowFields) :
                        /\ WindowFields[k] \in DOMAIN hf_config
                        /\ \A j \in 1..(k - 1) : WindowFields[j] \notin DOMAIN hf_config]]
    ELSE 2048

(* C24: the window that check_length compares with and reports is the value of
   max_sequence_length when the model metadata has it, else that of seq_length,
   else that of max_position_embeddings, and 2048 when it has none of the three:
   the request is rejected exactly when it exceeds that window, and the rejection
   reports that window as the limit. *)
C24_ContextWindowFirstAvailable ==
    pc # "recv" =>
        /\ context_len(hf_config) = FirstAvailableWindow
        /\ response.status = 400 <=> request.token_num + request.max_tokens > FirstAvailableWindow
        /\ response.status = 400 => response.message.limit = FirstAvailableWindow
        /\ submitted = 1 <=> request.token_num + request.max_tokens <= FirstAvailableWindow

(* seq_length 1024 and max_position_embeddings 4096, no max_sequence_length: a
   request of 1025 tokens in all is rejected against 1024 *)
C24_Witness ==
    /\ pc = "done"
    /\ DOMAIN hf_config = {"seq_length", "max_position_embeddings"}
    /\ hf_config["seq_length"] = 1024
    /\ hf_config["max_position_embeddings"] = 4096
    /\ request.token_num = 824
    /\ request.max_tokens = 201
    /\ response.status = 400
    /\ response.message.limit = 1024

-----------------------------------------------------------------------------
(* Two requests in flight together.  Each call of a handler has its own
   request_id, result_generator, previous_texts and previous_num_tokens: they are
   locals of the call and of the generator it builds.  A session is one such call,
   with the candidate sequences the engine keeps for its request_id and the event
   stream of its own HTTP response. *)

SessionIds == {1, 2}

(* The values random_uuid() can give *)
RequestIds == {"cmpl-a", "cmpl-b"}

mainVars == <<endpoint, request, hf_config, pc, response, submitted, aborts, seqs, scheduler,
              engine_finished, pending, previous_texts, previous_num_tokens, role_i,
              frames, final_res, disconnected, consumed, disc, queue_state>>

SessionValidation(ep, req) ==
    IF ep = "chat" THEN ChatValidation(req, ServedHfConfig) ELSE CompletionValidation(req)

SessionStream(ep, req) == IF ep = "chat" THEN ChatStream(req) ELSE CompletionStream(req)

(* The requests that pass the checks and get a true event stream *)
SessionRequests(ep) ==
    {r \in (IF ep = "chat" THEN ChatRequests ELSE CompletionRequests) :
        /\ OnePrompt(ep, r)
        /\ SessionValidation(ep, r) = NoResponse
        /\ SessionStream(ep, r)
        /\ r.best_of = NoInt
        /\ ~r.use_beam_search}

NewSession(ep, req) ==
    [endpoint |-> ep, request |-> req, request_id |-> None, pc |-> "recv", role_i |-> 0,
     seqs |-> <<>>, pending |-> <<>>, previous_texts |-> <<>>, previous_num_tokens |-> <<>>,
     frames |-> <<>>, snapshots |-> <<>>, aborts |-> 0]

(* An event of the stream of one response: a chunk is a JSON object with the id of
   its request, "data: [DONE]" is a bare string *)
WithId(id, fs) == [k \in DOMAIN fs |-> [id |-> id, frame |-> fs[k]]]

DoneEvent == [id |-> None, frame |-> DoneFrame]

(* The request ids already given out *)
UsedIds == {sessions[r].request_id : r \in DOMAIN sessions}

(* The handler up to the StreamingResponse: the checks, request_id, engine.generate *)
SessionSubmit(r) ==
    /\ sessions[r].pc = "recv"
    /\ SessionValidation(sessions[r].endpoint, sessions[r].request) = NoResponse
    /\ SessionStream(sessions[r].endpoint, sessions[r].request)
    /\ \E id \in RequestIds \ UsedIds :
          sessions' = [sessions EXCEPT
              ![r].request_id = id,
              ![r].seqs = NewSeqs(sessions[r].request),
              ![r].pc = IF sessions[r].endpoint = "chat" THEN "role" ELSE "wait",
              ![r].previous_texts =
                  IF sessions[r].endpoint = "chat" THEN <<>>
                  ELSE [i \in 0..(sessions[r].request.n - 1) |-> <<>>],
              ![r].previous_num_tokens =
                  IF sessions[r].endpoint = "chat" THEN <<>>
                  ELSE [i \in 0..(sessions[r].request.n - 1) |-> 0]]
    /\ UNCHANGED mainVars

(* The first chunk with the role, for i in range(n), of the chat generator *)
SessionRoleChunk(r) ==
    /\ sessions[r].pc = "role"
    /\ LET s == sessions[r]
           last == s.role_i + 1 >= s.request.n
       IN sessions' = [sessions EXCEPT
              ![r].frames = s.frames \o WithId(s.request_id, <<RoleChunk(s.role_i)>>),
              ![r].role_i = s.role_i + 1,
              ![r].pc = IF last THEN "wait" ELSE "role",
              ![r].previous_texts =
                  IF last THEN [i \in 0..(s.request.n - 1) |-> <<>>] ELSE s.previous_texts,
              ![r].previous_num_tokens =
                  IF last THEN [i \in 0..(s.request.n - 1) |-> 0] ELSE s.previous_num_tokens]
    /\ UNCHANGED mainVars

(* The order in which these snapshots list the sequences: by index *)
IndexOrder(req) == [k \in 1..req.n |-> k - 1]

(* async for res in result_generator, for the request of session r: the engine has
   run an iteration on its sequences, whatever it did for the other request *)
SessionNext(r) ==
    /\ sessions[r].pc = "wait"
    /\ ~AllFinished(sessions[r].seqs)
    /\ \E toks \in TokenChoicesIn(sessions[r].seqs) :
          LET sq == StepSeqsIn(sessions[r].seqs, toks, {})
              outputs == Outputs(sq, IndexOrder(sessions[r].request))
          IN sessions' = [sessions EXCEPT
                 ![r].seqs = sq,
                 ![r].pending = outputs,
                 ![r].snapshots = Append(sessions[r].snapshots, outputs),
                 ![r].pc = "out"]
    /\ UNCHANGED mainVars

(* previous_texts[i] as a generator reads it, were the array one object shared by
   all the calls: the one of the first session *)
SessionPrevious_shared(r, i) ==
    IF i \in DOMAIN sessions[1].previous_texts THEN sessions[1].previous_texts[i] ELSE <<>>

(* previous_texts[i] in the generator of session r *)
SessionPrevious(r, i) == sessions[r].previous_texts[i]

(* previous_num_tokens[i] in the generator of session r *)
SessionPreviousNum(r, i) == sessions[r].previous_num_tokens[i]

(* The events one output produces in the generator of a request *)
GeneratorFrames(ep, req, id, output, previous_text, previous_num) ==
    WithId(id, IF ep = "chat"
               THEN OutputFrames(output, previous_text)
               ELSE CompletionOutputFrames(output, previous_text, previous_num, req))

(* for output in res.outputs, in the generator of session r *)
SessionOutput(r) ==
    /\ sessions[r].pc = "out"
    /\ sessions[r].pending # <<>>
    /\ LET s == sessions[r]
           output == Head(s.pending)
           i == output.index
       IN sessions' = [sessions EXCEPT
              ![r].frames = s.frames \o GeneratorFrames(s.endpoint, s.request, s.request_id,
                                output, SessionPrevious(r, i), SessionPreviousNum(r, i)),
              ![r].previous_texts = [s.previous_texts EXCEPT ![i] = output.text],
              ![r].previous_num_tokens =
                  [s.previous_num_tokens EXCEPT ![i] = Len(output.token_ids)],
              ![r].pending = Tail(s.pending)]
    /\ UNCHANGED mainVars

(* yield "data: [DONE]" after the outputs of the snapshot *)
SessionDone(r) ==
    /\ sessions[r].pc = "out"
    /\ sessions[r].pending = <<>>
    /\ sessions' = [sessions EXCEPT ![r].frames = Append(sessions[r].frames, DoneEvent),
                                    ![r].pc = "wait"]
    /\ UNCHANGED mainVars

(* result_generator of session r is exhausted: its generator returns *)
SessionEnd(r) ==
    /\ sessions[r].pc = "wait"
    /\ AllFinished(sessions[r].seqs)
    /\ sessions' = [sessions EXCEPT ![r].pc = "background"]
    /\ UNCHANGED mainVars

(* The background task of the response of session r: engine.abort(request_id) *)
SessionAbort(r) ==
    /\ sessions[r].pc = "background"
    /\ sessions' = [sessions EXCEPT ![r].aborts = sessions[r].aborts + 1, ![r].pc = "done"]
    /\ UNCHANGED mainVars

InitTwo ==
    /\ endpoint = "chat"
    /\ request \in {r \in SessionRequests("chat") : r.n = 1}
    /\ hf_config = ServedHfConfig
    /\ InitMain
    /\ sessions \in [SessionIds -> {NewSession(ep, req) : ep \in {"chat"}, req \in SessionRequests("chat")}
                                    \cup {NewSession(ep, req) : ep \in {"completions"},
                                                                req \in SessionRequests("completions")}]

NextTwo ==
    \E r \in SessionIds :
        \/ SessionSubmit(r)
        \/ SessionRoleChunk(r)
        \/ SessionNext(r)
        \/ SessionOutput(r)
        \/ SessionDone(r)
        \/ SessionEnd(r)
        \/ SessionAbort(r)

SpecTwo == InitTwo /\ [][NextTwo]_vars

-----------------------------------------------------------------------------
(* The event stream a request gets when it is the only one: its generator run from
   fresh previous_texts and previous_num_tokens over the snapshots of its request *)

RECURSIVE AloneSnapshot(_, _, _, _, _)
AloneSnapshot(s, outputs, k, texts, nums) ==
    IF k > Len(outputs) THEN [frames |-> <<>>, texts |-> texts, nums |-> nums]
    ELSE LET output == outputs[k]
             i == output.index
             rest == AloneSnapshot(s, outputs, k + 1,
                                   [texts EXCEPT ![i] = output.text],
                                   [nums EXCEPT ![i] = Len(output.token_ids)])
         IN [frames |-> GeneratorFrames(s.endpoint, s.request, s.request_id, output,
                                        texts[i], nums[i]) \o rest.frames,
             texts |-> rest.texts, nums |-> rest.nums]

RECURSIVE AloneStream(_, _, _, _)
AloneStream(s, j, texts, nums) ==
    IF j > Len(s.snapshots) THEN <<>>
    ELSE LET one == AloneSnapshot(s, s.snapshots[j], 1, texts, nums)
         IN one.frames \o <<DoneEvent>> \o AloneStream(s, j + 1, one.texts, one.nums)

AloneRoles(s) ==
    IF s.endpoint = "chat"
    THEN WithId(s.request_id, [k \in 1..s.request.n |-> RoleChunk(k - 1)])
    ELSE <<>>

AloneFrames(s) ==
    AloneRoles(s) \o AloneStream(s, 1, [i \in 0..(s.request.n - 1) |-> <<>>],
                                 [i \in 0..(s.request.n - 1) |-> 0])

IsPrefix(a, b) == Len(a) <= Len(b) /\ a = SubSeq(b, 1, Len(a))

(* C23: accumulation state is private to one request.  When two requests stream
   together and their snapshots interleave in any way, the two calls have different
   request ids, every chunk of a request carries the id of that request, and the
   events a request has got so far are the events it gets when it is alone: a
   prefix of them while a snapshot is being written out, all of them between two
   snapshots and at the end. *)
C23_AccumulationStatePrivate ==
    \A r \in DOMAIN sessions :
        LET s == sessions[r] IN
        s.pc # "recv" =>
            /\ \A q \in DOMAIN sessions :
                   (q # r /\ sessions[q].pc # "recv") => sessions[q].request_id # s.request_id
            /\ \A k \in DOMAIN s.frames :
                   s.frames[k].frame.kind = "chunk" => s.frames[k].id = s.request_id
            /\ IsPrefix(s.frames, AloneFrames(s))
            /\ s.pc \in {"wait", "background", "done"} => s.frames = AloneFrames(s)

(* Both requests ask for two choices; the first has been given two snapshots, the
   second one snapshot in between, each is writing out its latest snapshot, and
   the two texts of choice 0 differ *)
C23_Witness ==
    /\ DOMAIN sessions = SessionIds
    /\ sessions[1].request.n = 2 /\ sessions[2].request.n = 2
    /\ sessions[1].pc = "out" /\ sessions[2].pc = "out"
    /\ Len(sessions[1].snapshots) = 2 /\ Len(sessions[2].snapshots) = 1
    /\ Len(sessions[1].pending) = 1 /\ Len(sessions[2].pending) = 1
    /\ sessions[1].previous_texts[0] # sessions[2].previous_texts[0]
    /\ sessions[1].snapshots[1][1].text # sessions[2].snapshots[1][1].text
    /\ sessions[1].frames # <<>> /\ sessions[2].frames # <<>>

====
